---- MODULE Spec2Model ----
(***************************************************************************)
(* Model of the HashString string-interning facility                       *)
(* (src/src/HashString.h, src/src/HashString.cpp).                         *)
(*                                                                         *)
(* State: the Schwarz counter and the HashStringInitilizer instances, the  *)
(* heap-allocated interned-string map (with the hash functor allocated and *)
(* deleted together with it), the static s_kEmptyString, a few HashString  *)
(* objects owned by callers, and the result of the last call.              *)
(***************************************************************************)
EXTENDS Integers, Sequences, FiniteSets, TLC

\* ---------------------------------------------------------------- bounds
MaxLen == 2             \* longest string the callers pass
NumChars == 1           \* size of the alphabet (character codes 1..NumChars)
NumInitializers == 2    \* translation units that include HashString.h
NumHandles == 2         \* HashString objects owned by callers
NumThreads == 2         \* concurrent caller threads
SizeTBits == 6          \* width of size_t, the result type of std::hash
StringIDBits == 2       \* width of StringID (unsigned int)

Chars == 1..NumChars
Strings == UNION { [1..n -> Chars] : n \in 0..MaxLen }
StringIDs == 0..(2^StringIDBits - 1)
Initializers == 1..NumInitializers
Handles == 1..NumHandles
Threads == 1..NumThreads
EmptyText == << >>

\* The initializer instance of HashString.cpp's own translation unit: the
\* one whose construction is followed by the construction of s_kEmptyString.
OwnUnit == CHOOSE i \in Initializers : \A j \in Initializers : i <= j

VARIABLES
    s_schwarzCounter,     \* static int s_schwarzCounter
    initializer,          \* each HashStringInitilizer instance's lifetime
    registry,             \* state of the s_internedStrings / s_stringHash allocation
    s_internedStrings,    \* contents of the map: StringID -> text
    s_kEmptyString,       \* the static constant handle
    handles,              \* callers' HashString objects
    call,                 \* last call made and what it returned
    fatal,                \* assert(0) fired: the process was aborted
    undefined,            \* an operation with undefined behaviour was executed
    threads,              \* concurrent callers (position in their call)
    mutating,             \* threads inside a map insertion
    returned              \* identifiers internString has returned to a thread

vars == << s_schwarzCounter, initializer, registry, s_internedStrings,
           s_kEmptyString, handles, call, fatal, undefined,
           threads, mutating, returned >>

concVars == << threads, mutating, returned >>

\* ------------------------------------------------------------ data types
\* InternStringMap: std::map< StringID, std::string const >, as a function
\* from the set of keys to the stored text.
EmptyMap == [k \in {} |-> EmptyText]

HasKey(map, id) == id \in DOMAIN map

\* Variant of MapInsert: the pair replaces the entry of a present key, as
\* operator[] assignment would.
MapInsert_Overwrite(map, id, str) ==
    [k \in (DOMAIN map) \cup {id} |-> IF k = id THEN str ELSE map[k]]

\* std::map::insert( pair ): adds the pair when the key is absent, leaves
\* the map alone (does not overwrite) when the key is present.
MapInsert(map, id, str) ==
    IF id \in DOMAIN map
      THEN map
      ELSE [k \in (DOMAIN map) \cup {id} |-> IF k = id THEN str ELSE map[k]]

\* std::hash<std::string>: an implementation-defined function of the
\* content alone with a size_t result, here a polynomial hash.
RECURSIVE StdHash(_)
StdHash(str) ==
    IF str = << >> THEN 0
    ELSE (StdHash(SubSeq(str, 1, Len(str) - 1)) * 31 + str[Len(str)]) % (2^SizeTBits)

\* StringID hash_value = (*s_stringHash)( str ): the size_t result is
\* converted to unsigned int.
s_stringHash(str) == StdHash(str) % (2^StringIDBits)

\* A HashString object. m_mapPosition is the key of the node the iterator
\* points to; iterValid tells whether that node still exists (the map it
\* belongs to has not been deleted); srcID is history kept for the
\* properties: the identifier internString returns for the text the object
\* was built from (for an object built from an identifier, that identifier).
NoHandle == [made |-> FALSE]
\* s_kEmptyString's static storage before its constructor has run, and
\* after its destructor has run
Zeroed == [made |-> FALSE, destroyed |-> FALSE]
Destroyed == [made |-> FALSE, destroyed |-> TRUE]
Handle(hash, pos, valid, srcID) ==
    [made |-> TRUE, m_hashValue |-> hash, m_mapPosition |-> pos,
     iterValid |-> valid, srcID |-> srcID]

\* The last call: the operation and what it returned (0 for a call that
\* returns nothing).
NoCall == [op |-> "none", ret |-> 0]
Call(op, ret) == [op |-> op, ret |-> ret]

\* ------------------------------------------------------------ lifecycle
Running == ~fatal /\ ~undefined

\* Dynamic initialisation of HashString.cpp is sequential: between the
\* construction of its `initializer' (HashString.h:172) and of
\* s_kEmptyString (HashString.cpp:42) nothing else runs.
StaticInitInProgress ==
    initializer[OwnUnit] = "alive" /\ s_kEmptyString = Zeroed

\* Static destruction runs in reverse: s_kEmptyString is destroyed, then
\* HashString.cpp's `initializer', with nothing in between.
StaticExitInProgress ==
    initializer[OwnUnit] = "alive" /\ s_kEmptyString = Destroyed

\* Caller code runs in a translation unit whose initializer is alive.
CallerRuns ==
    /\ Running
    /\ ~StaticInitInProgress
    /\ ~StaticExitInProgress
    /\ \E i \in Initializers : initializer[i] = "alive"

RegistryLive == registry = "allocated"

\* delete s_internedStrings: every iterator into the map becomes invalid.
Invalidate(h) == IF h.made THEN [h EXCEPT !.iterValid = FALSE] ELSE h

\* HashStringInitilizer::HashStringInitilizer()
HashStringInitilizer_ctor(i) ==
    /\ Running
    /\ ~StaticInitInProgress
    /\ ~StaticExitInProgress
    /\ initializer[i] = "unconstructed"
    /\ initializer' = [initializer EXCEPT ![i] = "alive"]
    /\ IF s_schwarzCounter = 0
         THEN /\ registry' = "allocated"
              /\ s_internedStrings' = EmptyMap
              /\ s_schwarzCounter' = s_schwarzCounter + 1
         ELSE UNCHANGED << registry, s_internedStrings, s_schwarzCounter >>
    /\ call' = Call("HashStringInitilizer", 0)
    /\ UNCHANGED << s_kEmptyString, handles, fatal, undefined, concVars >>

\* Variant of HashStringInitilizer_dtor: every destruction that leaves the
\* counter at or below zero deletes the map and the hash function.
HashStringInitilizer_dtor_Always(i) ==
    /\ Running
    /\ ~StaticInitInProgress
    /\ IF i = OwnUnit THEN StaticExitInProgress ELSE ~StaticExitInProgress
    /\ initializer[i] = "alive"
    /\ initializer' = [initializer EXCEPT ![i] = "destroyed"]
    /\ s_schwarzCounter' = s_schwarzCounter - 1
    /\ IF s_schwarzCounter - 1 <= 0
         THEN /\ registry' = "freed"
              /\ s_internedStrings' = EmptyMap
              /\ handles' = [h \in Handles |-> Invalidate(handles[h])]
              /\ s_kEmptyString' = Invalidate(s_kEmptyString)
              /\ undefined' = (registry = "freed")
         ELSE UNCHANGED << registry, s_internedStrings, handles,
                           s_kEmptyString, undefined >>
    /\ call' = Call("~HashStringInitilizer", 0)
    /\ UNCHANGED << fatal, concVars >>

\* HashStringInitilizer::~HashStringInitilizer()
HashStringInitilizer_dtor(i) ==
    /\ Running
    /\ ~StaticInitInProgress
    /\ IF i = OwnUnit THEN StaticExitInProgress ELSE ~StaticExitInProgress
    /\ initializer[i] = "alive"
    /\ initializer' = [initializer EXCEPT ![i] = "destroyed"]
    /\ s_schwarzCounter' = s_schwarzCounter - 1
    /\ IF s_schwarzCounter - 1 = 0
         THEN IF registry = "allocated"
                THEN /\ registry' = "freed"
                     /\ s_internedStrings' = EmptyMap
                     /\ handles' = [h \in Handles |-> Invalidate(handles[h])]
                     /\ s_kEmptyString' = Invalidate(s_kEmptyString)
                     /\ UNCHANGED undefined
                ELSE \* delete of pointers that were already deleted
                     /\ undefined' = (registry = "freed")
                     /\ UNCHANGED << registry, s_internedStrings, handles,
                                     s_kEmptyString >>
         ELSE UNCHANGED << registry, s_internedStrings, handles,
                           s_kEmptyString, undefined >>
    /\ call' = Call("~HashStringInitilizer", 0)
    /\ UNCHANGED << fatal, concVars >>

\* HashStringInitilizer::getSchwarz()
getSchwarz ==
    /\ CallerRuns
    /\ call' = Call("getSchwarz", s_schwarzCounter)
    /\ UNCHANGED << s_schwarzCounter, initializer, registry, s_internedStrings,
                    s_kEmptyString, handles, fatal, undefined, concVars >>

\* ------------------------------------------------- registry operations
\* A call that reads or writes the map or the hash functor after they were
\* deleted (or before they were allocated) has undefined behaviour: it may
\* return any value of its result type.
UndefinedCall(op, results) ==
    /\ \E r \in results : call' = Call(op, r)
    /\ undefined' = TRUE
    /\ UNCHANGED << s_schwarzCounter, initializer, registry, s_internedStrings,
                    s_kEmptyString, handles, fatal, concVars >>

\* A call that only reads: returns ret, changes nothing else.
ReadOnlyCall(op, ret) ==
    /\ call' = Call(op, ret)
    /\ UNCHANGED << s_schwarzCounter, initializer, registry, s_internedStrings,
                    s_kEmptyString, handles, fatal, undefined, concVars >>

\* Variant of IsStringInterned: looks for the text among the stored texts
\* instead of looking the identifier up.
IsStringInterned_ByText(map, str) == \E k \in DOMAIN map : map[k] = str

\* bool HashString::isStringInterned( std::string const & str ) on a live
\* registry: hash the text, look the identifier up.
IsStringInterned(map, str) == HasKey(map, s_stringHash(str))

isStringInterned_str(str) ==
    /\ CallerRuns
    /\ IF RegistryLive
         THEN ReadOnlyCall("isStringInterned(str)",
                           IsStringInterned(s_internedStrings, str))
         ELSE UndefinedCall("isStringInterned(str)", BOOLEAN)

\* bool HashString::isStringInterned( StringID const & hash_value )
isStringInterned_id(hash_value) ==
    /\ CallerRuns
    /\ IF RegistryLive
         THEN ReadOnlyCall("isStringInterned(id)",
                           HasKey(s_internedStrings, hash_value))
         ELSE UndefinedCall("isStringInterned(id)", BOOLEAN)

\* Variant of InternString: returns the identifier of an absent string
\* without adding it to the table.
InternString_NoInsert(map, str) ==
    [ map |-> map, ret |-> s_stringHash(str) ]

\* Variant of InternString: stores the text even when the key is present.
InternString_Overwrite(map, str) ==
    [ map |-> MapInsert_Overwrite(map, s_stringHash(str), str),
      ret |-> s_stringHash(str) ]

\* StringID HashString::internString( std::string const & str ) on a live
\* registry: the map it leaves and the identifier it returns.
InternString(map, str) ==
    LET hash_value == s_stringHash(str) IN
    IF HasKey(map, hash_value)
      THEN [ map |-> map, ret |-> hash_value ]
      ELSE [ map |-> MapInsert(map, hash_value, str), ret |-> hash_value ]

internString(str) ==
    /\ CallerRuns
    /\ IF RegistryLive
         THEN /\ s_internedStrings' = InternString(s_internedStrings, str).map
              /\ call' = Call("internString",
                              InternString(s_internedStrings, str).ret)
              /\ UNCHANGED << s_schwarzCounter, initializer, registry,
                              s_kEmptyString, handles, fatal, undefined,
                              concVars >>
         ELSE UndefinedCall("internString", StringIDs)

\* Variant of Resolve: for an absent identifier gives the text of the
\* first entry of the table.
Resolve_First(map, id) ==
    IF HasKey(map, id) THEN map[id]
    ELSE IF DOMAIN map = {} THEN EmptyText
         ELSE map[CHOOSE k \in DOMAIN map : \A j \in DOMAIN map : k <= j]

\* The text getStringFromHash returns for id on a given map.
Resolve(map, id) == IF HasKey(map, id) THEN map[id] ELSE EmptyText

\* std::string HashString::getStringFromHash( StringID const & id )
getStringFromHash(id) ==
    /\ CallerRuns
    /\ IF RegistryLive
         THEN ReadOnlyCall("getStringFromHash", Resolve(s_internedStrings, id))
         ELSE UndefinedCall("getStringFromHash", Strings)

\* static getInternMap(): a copy of *s_internedStrings
getInternMap ==
    /\ CallerRuns
    /\ IF RegistryLive
         THEN ReadOnlyCall("getInternMap", s_internedStrings)
         ELSE UndefinedCall("getInternMap", {EmptyMap})

\* ------------------------------------------------------------ HashString
\* The objects a copy, an assignment or a comparison can name: 0 is
\* s_kEmptyString, the others are the callers' objects.
Operands == {0} \cup Handles
HandleAt(x) == IF x = 0 THEN s_kEmptyString ELSE handles[x]

\* The iterator can be dereferenced: it points to a node of the live map.
Readable(h) ==
    /\ h.made
    /\ h.iterValid
    /\ RegistryLive
    /\ HasKey(s_internedStrings, h.m_mapPosition)

\* The object left by a constructor whose behaviour is undefined.
Garbage(srcID) ==
    { Handle(hash, pos, FALSE, srcID) : hash \in StringIDs, pos \in StringIDs }

\* Variant of HashString_text: the entry is stored under the identifier
\* that follows the text's own.
HashString_text_NextKey(map, str) ==
    LET hash == s_stringHash(str)
        key == (hash + 1) % (2^StringIDBits)
    IN  [ map |-> MapInsert(map, key, str),
          obj |-> Handle(hash, key, TRUE, InternString(map, str).ret) ]

\* Variant of HashString_text: the text replaces the one stored under a
\* key that is already present.
HashString_text_Overwrite(map, str) ==
    LET hash == s_stringHash(str) IN
    [ map |-> MapInsert_Overwrite(map, hash, str),
      obj |-> Handle(hash, hash, TRUE, InternString(map, str).ret) ]

\* Variant of HashString_text: the object is built around the position a
\* find gives, nothing is inserted.
HashString_text_NoInsert(map, str) ==
    LET hash == s_stringHash(str) IN
    [ map |-> map,
      obj |-> Handle(hash, hash, HasKey(map, hash),
                     InternString(map, str).ret) ]

\* Variant of HashString_text: keeps begin() instead of the position
\* insert returned.
HashString_text_Begin(map, str) ==
    LET hash == s_stringHash(str)
        new == MapInsert(map, hash, str)
        first == CHOOSE k \in DOMAIN new : \A j \in DOMAIN new : k <= j
    IN  [ map |-> new,
          obj |-> Handle(hash, first, TRUE, InternString(map, str).ret) ]

\* HashString::HashString( std::string const & str ) on a live registry:
\* hash the text, insert without overwriting, keep the position insert
\* returned. Gives the map and the object it leaves.
HashString_text(map, str) ==
    LET hash == s_stringHash(str) IN
    [ map |-> MapInsert(map, hash, str),
      obj |-> Handle(hash, hash, TRUE, InternString(map, str).ret) ]

\* HashString const HashString::s_kEmptyString("")
\* (through HashString( char const * ), HashString.cpp:147)
EmptyString_ctor ==
    /\ Running
    /\ StaticInitInProgress
    /\ IF RegistryLive
         THEN /\ s_internedStrings' =
                    HashString_text(s_internedStrings, EmptyText).map
              /\ s_kEmptyString' =
                    HashString_text(s_internedStrings, EmptyText).obj
              /\ UNCHANGED undefined
         ELSE /\ s_kEmptyString' \in Garbage(s_stringHash(EmptyText))
              /\ undefined' = TRUE
              /\ UNCHANGED s_internedStrings
    /\ call' = Call("s_kEmptyString", 0)
    /\ UNCHANGED << s_schwarzCounter, initializer, registry, handles, fatal,
                    concVars >>

\* s_kEmptyString's HashString::~HashString(), at static destruction
EmptyString_dtor ==
    /\ CallerRuns
    /\ initializer[OwnUnit] = "alive"
    /\ s_kEmptyString.made
    /\ s_kEmptyString' = Destroyed
    /\ call' = Call("~s_kEmptyString", 0)
    /\ UNCHANGED << s_schwarzCounter, initializer, registry, s_internedStrings,
                    handles, fatal, undefined, concVars >>

\* The storage a new caller's object is built in: the callers' objects are
\* interchangeable, a new one takes the first free place.
Free(h) ==
    /\ ~handles[h].made
    /\ \A g \in Handles : g < h => handles[g].made

\* A constructor that stores obj in the caller's object h and leaves map.
Construct(op, h, map, obj) ==
    /\ handles' = [handles EXCEPT ![h] = obj]
    /\ s_internedStrings' = map
    /\ call' = Call(op, 0)
    /\ UNCHANGED << s_schwarzCounter, initializer, registry, s_kEmptyString,
                    fatal, undefined, concVars >>

\* A constructor with undefined behaviour: the object holds anything.
UndefinedConstruct(op, h, srcID) ==
    /\ \E obj \in Garbage(srcID) : handles' = [handles EXCEPT ![h] = obj]
    /\ call' = Call(op, 0)
    /\ undefined' = TRUE
    /\ UNCHANGED << s_schwarzCounter, initializer, registry, s_internedStrings,
                    s_kEmptyString, fatal, concVars >>

\* explicit HashString::HashString( std::string const & str )
HashString_str(h, str) ==
    /\ CallerRuns
    /\ Free(h)
    /\ IF RegistryLive
         THEN Construct("HashString(str)", h,
                        HashString_text(s_internedStrings, str).map,
                        HashString_text(s_internedStrings, str).obj)
         ELSE UndefinedConstruct("HashString(str)", h, s_stringHash(str))

\* HashString::HashString( char const * c_str ): delegates to the
\* constructor from std::string
HashString_cstr(h, c_str) ==
    /\ CallerRuns
    /\ Free(h)
    /\ IF RegistryLive
         THEN Construct("HashString(c_str)", h,
                        HashString_text(s_internedStrings, c_str).map,
                        HashString_text(s_internedStrings, c_str).obj)
         ELSE UndefinedConstruct("HashString(c_str)", h, s_stringHash(c_str))

\* Variant of HashString_id: an absent identifier is added to the table
\* with an empty text instead of failing.
HashString_id_Interning(h, str_id) ==
    /\ CallerRuns
    /\ Free(h)
    /\ RegistryLive
    /\ Construct("HashString(id)", h,
                 MapInsert(s_internedStrings, str_id, EmptyText),
                 Handle(str_id, str_id, TRUE, str_id))

\* Variant of HashString_id: the assertion is missing, an object is built
\* around the end position.
HashString_id_NoAssert(h, str_id) ==
    /\ CallerRuns
    /\ Free(h)
    /\ RegistryLive
    /\ Construct("HashString(id)", h, s_internedStrings,
                 Handle(str_id, str_id, HasKey(s_internedStrings, str_id),
                        str_id))

\* explicit HashString::HashString( StringID const & str_id )
HashString_id(h, str_id) ==
    /\ CallerRuns
    /\ Free(h)
    /\ IF RegistryLive
         THEN IF HasKey(s_internedStrings, str_id)
                THEN Construct("HashString(id)", h,
                               s_internedStrings,
                               Handle(str_id, str_id, TRUE, str_id))
                ELSE \* assert ( 0 && "Uninterned HashString Referenced" )
                     /\ fatal' = TRUE
                     /\ call' = Call("HashString(id)", 0)
                     /\ UNCHANGED << s_schwarzCounter, initializer, registry,
                                     s_internedStrings, s_kEmptyString,
                                     handles, undefined, concVars >>
         ELSE UndefinedConstruct("HashString(id)", h, str_id)

\* HashString::HashString( HashString const & other )
HashString_copy(h, other) ==
    /\ CallerRuns
    /\ Free(h)
    /\ other # h
    /\ IF HandleAt(other).made
         THEN Construct("HashString(copy)", h,
                        s_internedStrings, HandleAt(other))
         ELSE \* s_kEmptyString read outside its lifetime
              /\ other = 0
              /\ UndefinedConstruct("HashString(copy)", h, 0)

\* HashString::HashString(): copy of s_kEmptyString
HashString_default(h) ==
    /\ CallerRuns
    /\ Free(h)
    /\ IF s_kEmptyString.made
         THEN Construct("HashString()", h,
                        s_internedStrings, s_kEmptyString)
         ELSE UndefinedConstruct("HashString()", h, 0)

\* HashString::~HashString(): empty body
HashString_dtor(h) ==
    /\ CallerRuns
    /\ handles[h].made
    /\ Construct("~HashString", h, s_internedStrings, NoHandle)

\* Variant of Assign: only m_hashValue is taken from other, the position
\* stays.
Assign_HashOnly(h, other) ==
    /\ CallerRuns
    /\ handles[h].made
    /\ HandleAt(other).made
    /\ Construct("operator=", h, s_internedStrings,
                 [handles[h] EXCEPT !.m_hashValue = HandleAt(other).m_hashValue,
                                    !.srcID = HandleAt(other).srcID])

\* HashString & HashString::operator=( HashString const & other )
Assign(h, other) ==
    /\ CallerRuns
    /\ handles[h].made
    /\ IF HandleAt(other).made
         THEN Construct("operator=", h,
                        s_internedStrings, HandleAt(other))
         ELSE /\ other = 0
              /\ UndefinedConstruct("operator=", h, 0)

\* std::string HashString::getString() const: m_mapPosition->second
TextOf(h) == s_internedStrings[h.m_mapPosition]

getString(h) ==
    /\ CallerRuns
    /\ handles[h].made
    /\ IF Readable(handles[h])
         THEN ReadOnlyCall("getString", TextOf(handles[h]))
         ELSE UndefinedCall("getString", Strings)

\* -------------------------------------------------------------- operators
\* bool HashString::operator< ( HashString const & other ) const
Less(a, b) == a.m_hashValue < b.m_hashValue
\* Variant of Equal: compares the positions' validity along with the
\* identifiers.
Equal_WithPosition(a, b) ==
    a.m_hashValue = b.m_hashValue /\ a.iterValid = b.iterValid

\* bool HashString::operator== ( HashString const & other ) const
Equal(a, b) == a.m_hashValue = b.m_hashValue
\* bool HashString::operator!= ( HashString const & other ) const
NotEqual(a, b) == ~(a.m_hashValue = b.m_hashValue)
\* bool HashString::operator== ( StringID const & other ) const
EqualID(a, id) == a.m_hashValue = id
\* bool HashString::operator!= ( StringID const & other ) const
NotEqualID(a, id) == a.m_hashValue # id
\* bool HashString::operator< ( StringID const & other ) const
LessID(a, id) == a.m_hashValue < id
\* bool HashString::operator== ( std::string const & other ) const
EqualText(a, str) == TextOf(a) = str
\* bool HashString::operator!= ( std::string const & other ) const
NotEqualText(a, str) == ~(TextOf(a) = str)

\* A comparison of the caller's object h with another HashString.
CompareHandles(op, h, other) ==
    /\ CallerRuns
    /\ handles[h].made
    /\ IF HandleAt(other).made
         THEN ReadOnlyCall(op,
                CASE op = "operator<"  -> Less(handles[h], HandleAt(other))
                  [] op = "operator==" -> Equal(handles[h], HandleAt(other))
                  [] op = "operator!=" -> NotEqual(handles[h], HandleAt(other)))
         ELSE /\ other = 0
              /\ UndefinedCall(op, BOOLEAN)

opLess(h, other) == CompareHandles("operator<", h, other)
opEqual(h, other) == CompareHandles("operator==", h, other)
opNotEqual(h, other) == CompareHandles("operator!=", h, other)

opEqualID(h, id) ==
    /\ CallerRuns
    /\ handles[h].made
    /\ ReadOnlyCall("operator==(id)", EqualID(handles[h], id))

opNotEqualID(h, id) ==
    /\ CallerRuns
    /\ handles[h].made
    /\ ReadOnlyCall("operator!=(id)", NotEqualID(handles[h], id))

opLessID(h, id) ==
    /\ CallerRuns
    /\ handles[h].made
    /\ ReadOnlyCall("operator<(id)", LessID(handles[h], id))

opEqualText(h, str) ==
    /\ CallerRuns
    /\ handles[h].made
    /\ IF Readable(handles[h])
         THEN ReadOnlyCall("operator==(str)", EqualText(handles[h], str))
         ELSE UndefinedCall("operator==(str)", BOOLEAN)

opNotEqualText(h, str) ==
    /\ CallerRuns
    /\ handles[h].made
    /\ IF Readable(handles[h])
         THEN ReadOnlyCall("operator!=(str)", NotEqualText(handles[h], str))
         ELSE UndefinedCall("operator!=(str)", BOOLEAN)

\* ---------------------------------------------------------- specification
InitSeq ==
    /\ s_schwarzCounter = 0
    /\ initializer = [i \in Initializers |-> "unconstructed"]
    /\ registry = "unallocated"
    /\ s_internedStrings = EmptyMap
    /\ s_kEmptyString = Zeroed
    /\ handles = [h \in Handles |-> NoHandle]
    /\ call = NoCall
    /\ fatal = FALSE
    /\ undefined = FALSE

\* A thread that is not inside a call. op, str, id keep the last call and
\* its arguments, hash is the local hash_value / m_hashValue, found the
\* outcome of find, rval the value returned, after tells whether the call
\* started after internString had returned its identifier to some thread.
Idle == [pc |-> "idle", op |-> "none", str |-> EmptyText, id |-> 0,
         hash |-> 0, found |-> FALSE, rval |-> EmptyText, after |-> FALSE]

Init ==
    /\ InitSeq
    /\ threads = [t \in Threads |-> Idle]
    /\ mutating = {}
    /\ returned = {}

Next ==
    \/ \E i \in Initializers : HashStringInitilizer_ctor(i)
    \/ \E i \in Initializers : HashStringInitilizer_dtor(i)
    \/ getSchwarz
    \/ EmptyString_ctor
    \/ EmptyString_dtor
    \/ \E str \in Strings : isStringInterned_str(str)
    \/ \E id \in StringIDs : isStringInterned_id(id)
    \/ \E str \in Strings : internString(str)
    \/ \E id \in StringIDs : getStringFromHash(id)
    \/ getInternMap
    \/ \E h \in Handles, str \in Strings : HashString_str(h, str)
    \/ \E h \in Handles, str \in Strings : HashString_cstr(h, str)
    \/ \E h \in Handles, id \in StringIDs : HashString_id(h, id)
    \/ \E h \in Handles, other \in Operands : HashString_copy(h, other)
    \/ \E h \in Handles : HashString_default(h)
    \/ \E h \in Handles : HashString_dtor(h)
    \/ \E h \in Handles, other \in Operands : Assign(h, other)
    \/ \E h \in Handles : getString(h)
    \/ \E h \in Handles, other \in Operands : opLess(h, other)
    \/ \E h \in Handles, other \in Operands : opEqual(h, other)
    \/ \E h \in Handles, other \in Operands : opNotEqual(h, other)
    \/ \E h \in Handles, id \in StringIDs : opEqualID(h, id)
    \/ \E h \in Handles, id \in StringIDs : opNotEqualID(h, id)
    \/ \E h \in Handles, id \in StringIDs : opLessID(h, id)
    \/ \E h \in Handles, str \in Strings : opEqualText(h, str)
    \/ \E h \in Handles, str \in Strings : opNotEqualText(h, str)

Spec == Init /\ [][Next]_vars

\* ------------------------------------------------------ concurrent callers
\* Threads call internString, HashString( std::string const & ) and
\* getStringFromHash on the shared map with no lock (the source has none).
\* A call is a sequence of steps: hashing, the find, the insert (which
\* starts and later completes the modification of the tree) and the return.

\* The process after static initialisation: every initializer is alive,
\* the registry is allocated and holds the empty string.
InitConc ==
    /\ s_schwarzCounter = 1
    /\ initializer = [i \in Initializers |-> "alive"]
    /\ registry = "allocated"
    /\ s_internedStrings = HashString_text(EmptyMap, EmptyText).map
    /\ s_kEmptyString = HashString_text(EmptyMap, EmptyText).obj
    /\ handles = [h \in Handles |-> NoHandle]
    /\ call = NoCall
    /\ fatal = FALSE
    /\ undefined = FALSE
    /\ threads = [t \in Threads |-> Idle]
    /\ mutating = {}
    /\ returned = {}

\* Another thread is modifying the map: an access now is a data race.
Races(t) == mutating \ {t} # {}

Step(t, rec) ==
    /\ threads' = [threads EXCEPT ![t] = rec]
    /\ UNCHANGED << s_schwarzCounter, initializer, registry, s_kEmptyString,
                    handles, call, fatal, undefined >>

\* internString, HashString.cpp:72: hash_value = (*s_stringHash)( str )
T_internString_hash(t, str) ==
    /\ threads[t].pc = "idle"
    /\ Step(t, [Idle EXCEPT !.pc = "find", !.op = "internString",
                            !.str = str, !.hash = s_stringHash(str)])
    /\ UNCHANGED << s_internedStrings, mutating, returned >>

\* internString, HashString.cpp:75: the find. In a data race with an
\* insertion the traversal may or may not reach the node.
T_internString_find(t) ==
    /\ threads[t].pc = "find"
    /\ \E found \in IF Races(t) THEN BOOLEAN
                    ELSE { HasKey(s_internedStrings, threads[t].hash) } :
          Step(t, [threads[t] EXCEPT !.found = found,
                      !.pc = IF found THEN "return" ELSE "insert"])
    /\ UNCHANGED << s_internedStrings, mutating, returned >>

\* HashString( std::string const & ), HashString.cpp:122:
\* m_hashValue = (*s_stringHash)( str )
T_HashString_hash(t, str) ==
    /\ threads[t].pc = "idle"
    /\ Step(t, [Idle EXCEPT !.pc = "insert", !.op = "HashString(str)",
                            !.str = str, !.hash = s_stringHash(str)])
    /\ UNCHANGED << s_internedStrings, mutating, returned >>

\* s_internedStrings->insert( ... ), HashString.cpp:81 and :126: the call
\* searches the tree for the key and, when it does not see it, starts to
\* link a new node. In a data race the search may or may not see the key.
T_insert_begin(t) ==
    /\ threads[t].pc = "insert"
    /\ \E found \in IF Races(t) THEN BOOLEAN
                    ELSE { HasKey(s_internedStrings, threads[t].hash) } :
          /\ mutating' = IF found THEN mutating ELSE mutating \cup {t}
          /\ Step(t, [threads[t] EXCEPT
                         !.pc = IF found THEN "return" ELSE "link"])
    /\ UNCHANGED << s_internedStrings, returned >>

\* The insert completes and the node is linked. In a data race with
\* another insertion the new node may also be lost.
T_insert_end(t) ==
    /\ threads[t].pc = "link"
    /\ mutating' = mutating \ {t}
    /\ \E map \in
          { MapInsert(s_internedStrings, threads[t].hash, threads[t].str) }
          \cup (IF Races(t) THEN { s_internedStrings } ELSE {}) :
          s_internedStrings' = map
    /\ Step(t, [threads[t] EXCEPT !.pc = "return"])
    /\ UNCHANGED returned

\* return hash_value (internString), end of the constructor (HashString)
T_return(t) ==
    /\ threads[t].pc = "return"
    /\ returned' = IF threads[t].op = "internString"
                     THEN returned \cup { threads[t].hash }
                     ELSE returned
    /\ Step(t, [threads[t] EXCEPT !.pc = "idle"])
    /\ UNCHANGED << s_internedStrings, mutating >>

\* getStringFromHash is called with id
T_getStringFromHash_call(t, id) ==
    /\ threads[t].pc = "idle"
    /\ Step(t, [Idle EXCEPT !.pc = "lookup", !.op = "getStringFromHash",
                            !.id = id, !.after = (id \in returned)])
    /\ UNCHANGED << s_internedStrings, mutating, returned >>

\* getStringFromHash, HashString.cpp:90-95: find and copy of the text. In
\* a data race with an insertion the traversal may miss the node or read
\* any text.
T_getStringFromHash_find(t) ==
    /\ threads[t].pc = "lookup"
    /\ \E rval \in IF Races(t) THEN Strings
                   ELSE { Resolve(s_internedStrings, threads[t].id) } :
          Step(t, [threads[t] EXCEPT !.rval = rval, !.pc = "result"])
    /\ UNCHANGED << s_internedStrings, mutating, returned >>

\* getStringFromHash, HashString.cpp:97: return rval
T_getStringFromHash_return(t) ==
    /\ threads[t].pc = "result"
    /\ Step(t, [threads[t] EXCEPT !.pc = "idle"])
    /\ UNCHANGED << s_internedStrings, mutating, returned >>

NextConc ==
    \/ \E t \in Threads, str \in Strings : T_internString_hash(t, str)
    \/ \E t \in Threads : T_internString_find(t)
    \/ \E t \in Threads, str \in Strings : T_HashString_hash(t, str)
    \/ \E t \in Threads : T_insert_begin(t)
    \/ \E t \in Threads : T_insert_end(t)
    \/ \E t \in Threads : T_return(t)
    \/ \E t \in Threads, id \in StringIDs : T_getStringFromHash_call(t, id)
    \/ \E t \in Threads : T_getStringFromHash_find(t)
    \/ \E t \in Threads : T_getStringFromHash_return(t)

SpecConc == InitConc /\ [][NextConc]_vars

\* ================================================================ claims
SomeInitializerAlive == \E i \in Initializers : initializer[i] = "alive"

\* No string with str's identifier and another text is in the registry.
NoCollision(str) ==
    HasKey(s_internedStrings, s_stringHash(str))
        => s_internedStrings[s_stringHash(str)] = str

\* C1: while at least one HashStringInitilizer instance is alive, the
\* registry (map and hash function) is allocated and not freed.
C1_RegistryLiveWhileInitializerAlive ==
    SomeInitializerAlive => registry = "allocated"

\* C2: round trip. When no string colliding with s is in the registry,
\* getStringFromHash of the identifier internString(s) returns gives s.
C2_RoundTrip ==
    [][ \A str \in Strings :
          (RegistryLive /\ NoCollision(str) /\ internString(str))
              => Resolve(s_internedStrings', call'.ret) = str ]_vars

C2_Witness ==
    /\ call.op = "internString"
    /\ RegistryLive
    /\ call.ret = s_stringHash(<<1>>)
    /\ Resolve(s_internedStrings, call.ret) = <<1>>

\* C3: internString is deterministic and idempotent. The identifier it
\* returns for s does not depend on what the registry holds, s's identifier
\* is a key after the call, and a call made when that key is present (as it
\* is after the first call) leaves the table exactly as it was.
C3_InternDeterministicIdempotent ==
    [][ \A str \in Strings :
          (RegistryLive /\ internString(str))
              => /\ call'.ret = InternString(EmptyMap, str).ret
                 /\ HasKey(s_internedStrings', call'.ret)
                 /\ IsStringInterned(s_internedStrings, str)
                        => s_internedStrings' = s_internedStrings ]_vars

\* internString returned the identifier of an entry that a live object
\* already referred to before the call.
C3_Witness ==
    /\ call.op = "internString"
    /\ RegistryLive
    /\ \E h \in Handles :
          /\ Readable(handles[h])
          /\ handles[h].m_mapPosition = call.ret

\* C4: the table only grows. During one registry lifetime every entry
\* present in a state is present with the identical text in the next.
C4_TableOnlyGrows ==
    [][ (registry = "allocated" /\ registry' = "allocated")
          => \A k \in DOMAIN s_internedStrings :
                /\ k \in DOMAIN s_internedStrings'
                /\ s_internedStrings'[k] = s_internedStrings[k] ]_vars

\* An insertion for a colliding text was made on a table of two entries.
C4_Witness ==
    /\ RegistryLive
    /\ Cardinality(DOMAIN s_internedStrings) >= 2
    /\ call.op \in {"internString", "HashString(str)"}
    /\ \E h \in Handles :
          /\ Readable(handles[h])
          /\ \E str \in Strings :
                /\ s_stringHash(str) = handles[h].m_mapPosition
                /\ TextOf(handles[h]) # str

\* C5 as stated: isStringInterned(s) is false before the first
\* internString(s). Then a step that turns it from false to true is a call
\* of internString(s).
C5_FalseBeforeFirstIntern ==
    [][ \A str \in Strings :
          ( /\ registry = "allocated" /\ registry' = "allocated"
            /\ ~IsStringInterned(s_internedStrings, str)
            /\ IsStringInterned(s_internedStrings', str) )
              => internString(str) ]_vars

\* The calls that insert text under str's identifier.
InsertsIdentifierOf(str) ==
    \E t \in Strings :
       /\ s_stringHash(t) = s_stringHash(str)
       /\ \/ internString(t)
          \/ \E h \in Handles : HashString_str(h, t) \/ HashString_cstr(h, t)
          \/ t = EmptyText /\ EmptyString_ctor

\* C5 amended: isStringInterned(s) is false in a new registry and stays
\* false until a string with s's identifier is inserted (by internString,
\* by a HashString built from text, or by s_kEmptyString's construction);
\* it is true after internString(s) and stays true for the rest of the
\* registry's lifetime.
C5_PresenceAmended ==
    [][ \A str \in Strings :
          /\ (registry # "allocated" /\ registry' = "allocated")
                => ~IsStringInterned(s_internedStrings', str)
          /\ (registry = "allocated" /\ registry' = "allocated")
                => /\ ( ~IsStringInterned(s_internedStrings, str)
                        /\ IsStringInterned(s_internedStrings', str) )
                          => InsertsIdentifierOf(str)
                   /\ internString(str)
                          => IsStringInterned(s_internedStrings', str)
                   /\ IsStringInterned(s_internedStrings, str)
                          => IsStringInterned(s_internedStrings', str) ]_vars

\* isStringInterned answered true for a text internString had inserted.
C5_Witness ==
    /\ call.op = "isStringInterned(str)"
    /\ call.ret = TRUE
    /\ RegistryLive
    /\ Resolve(s_internedStrings, s_stringHash(<<1>>)) = <<1>>

C7_HandleValidity ==
    (SomeInitializerAlive /\ ~fatal)
        => \A h \in Handles : handles[h].made => Readable(handles[h])

\* C8: handle equality is identifier equality. Two HashStrings compare
\* equal iff internString returns the same identifier for the texts they
\* were built from, and operator!= is the negation of operator==.
C8_EqualityIsIdentifierEquality ==
    ~undefined =>
        \A a \in Operands, b \in Operands :
            (HandleAt(a).made /\ HandleAt(b).made)
                => /\ Equal(HandleAt(a), HandleAt(b))
                        <=> (HandleAt(a).srcID = HandleAt(b).srcID)
                   /\ NotEqual(HandleAt(a), HandleAt(b))
                        <=> ~Equal(HandleAt(a), HandleAt(b))

\* Two objects built for different identifiers were compared with ==.
C8_Witness ==
    /\ call.op = "operator=="
    /\ call.ret = FALSE
    /\ \A h \in {1, 2} : handles[h].made
    /\ handles[1].srcID # handles[2].srcID

\* C9: handle text round trip. A HashString built from s when no colliding
\* string is in the registry returns s from getString and compares equal
\* to s through operator==( std::string ).
C9_HandleTextRoundTrip ==
    [][ \A h \in Handles, str \in Strings :
          ( /\ RegistryLive
            /\ NoCollision(str)
            /\ HashString_str(h, str) \/ HashString_cstr(h, str) )
              => /\ Readable(handles[h])'
                 /\ TextOf(handles[h])' = str
                 /\ EqualText(handles[h], str)'
                 /\ ~NotEqualText(handles[h], str)' ]_vars

C9_Witness ==
    /\ call.op = "operator==(str)"
    /\ call.ret = TRUE
    /\ \E h \in Handles :
          /\ Readable(handles[h])
          /\ TextOf(handles[h]) = <<1>>

\* C10: under concurrent callers with no external synchronisation, a
\* getStringFromHash(id) that starts after internString has returned id to
\* some thread returns the text the registry holds for id, never the
\* absent result and never another text.
C10_ResolveAfterInternReturned ==
    \A t \in Threads :
        ( /\ threads[t].pc = "idle"
          /\ threads[t].op = "getStringFromHash"
          /\ threads[t].after )
            => /\ HasKey(s_internedStrings, threads[t].id)
               /\ threads[t].rval = s_internedStrings[threads[t].id]


\* The facility is usable: caller code runs and the registry is allocated.
FacilityUsable == CallerRuns /\ RegistryLive

\* C11: the empty string is pre-registered and the default handle denotes
\* it. In every state in which the facility is usable the identifier of ""
\* is a key of the registry, and a default-constructed HashString compares
\* equal to s_kEmptyString, returns "" from getString and is built without
\* any change to the registry.
C11_EmptyStringPreRegistered ==
    [][ /\ FacilityUsable'
            => HasKey(s_internedStrings', s_stringHash(EmptyText))
        /\ \A h \in Handles :
              (FacilityUsable /\ HashString_default(h))
                  => /\ ~undefined'
                     /\ Equal(handles[h], s_kEmptyString)'
                     /\ Readable(handles[h])'
                     /\ TextOf(handles[h])' = EmptyText
                     /\ s_internedStrings' = s_internedStrings ]_vars


\* A call of one of the operations that only read the registry.
ReadOnlyStep ==
    \/ \E str \in Strings : isStringInterned_str(str)
    \/ \E id \in StringIDs : isStringInterned_id(id)
    \/ \E id \in StringIDs : getStringFromHash(id)
    \/ getInternMap
    \/ \E h \in Handles, id \in StringIDs : HashString_id(h, id)
    \/ \E h \in Handles, other \in Operands :
          \/ HashString_copy(h, other)
          \/ Assign(h, other)
          \/ opLess(h, other)
          \/ opEqual(h, other)
          \/ opNotEqual(h, other)
    \/ \E h \in Handles, id \in StringIDs :
          opEqualID(h, id) \/ opNotEqualID(h, id) \/ opLessID(h, id)
    \/ \E h \in Handles, str \in Strings :
          opEqualText(h, str) \/ opNotEqualText(h, str)

\* C12: read-only operations leave the registry unchanged. The two
\* isStringInterned, getStringFromHash, getInternMap, the construction of a
\* HashString from an identifier (present or absent), copy construction,
\* assignment and every comparison leave the table with the same keys and
\* texts as before the call.
C12_ReadOnlyFrame ==
    [][ (RegistryLive /\ ReadOnlyStep)
            => /\ s_internedStrings' = s_internedStrings
               /\ registry' = registry ]_vars

\* A HashString was built from an identifier on a table of two entries.
C12_Witness ==
    /\ call.op = "HashString(id)"
    /\ ~fatal
    /\ RegistryLive
    /\ Cardinality(DOMAIN s_internedStrings) >= 2
    /\ \E h \in Handles : Readable(handles[h])


\* C13: getStringFromHash(id) returns the text stored for id when id is a
\* key of the registry, and the empty string when it is not; in both cases
\* it does not fail and inserts nothing.
C13_ResolveOrAbsent ==
    [][ \A id \in StringIDs :
          (RegistryLive /\ getStringFromHash(id))
              => /\ id \in DOMAIN s_internedStrings
                      => call'.ret = s_internedStrings[id]
                 /\ id \notin DOMAIN s_internedStrings
                      => call'.ret = EmptyText
                 /\ ~fatal' /\ ~undefined'
                 /\ s_internedStrings' = s_internedStrings ]_vars

\* getStringFromHash gave the absent result on a table that has entries but
\* none for the empty string: the identifier asked for was not a key.
C13_Witness ==
    /\ call.op = "getStringFromHash"
    /\ call.ret = EmptyText
    /\ RegistryLive
    /\ DOMAIN s_internedStrings # {}
    /\ \A k \in DOMAIN s_internedStrings : s_internedStrings[k] # EmptyText


\* C14: registry key invariant. In every reachable state each key k of the
\* table is the hash of the text stored under it, truncated to the width
\* of StringID, whether internString or a HashString built from text
\* inserted the entry.
C14_KeyIsHashOfText ==
    \A k \in DOMAIN s_internedStrings :
        StdHash(s_internedStrings[k]) % (2^StringIDBits) = k

\* The table holds an entry a HashString built from text refers to and
\* another entry, and the last call was an internString.
C14_Witness ==
    /\ RegistryLive
    /\ call.op = "internString"
    /\ \E h \in Handles :
          /\ Readable(handles[h])
          /\ \E k \in DOMAIN s_internedStrings :
                k # handles[h].m_mapPosition


\* C15: first insertion wins on collision. The first string inserted for
\* an identifier becomes its text; a later internString or HashString
\* construction for a string with that identifier returns or holds the
\* same identifier, adds no entry, and the text resolved for the identifier
\* (by getStringFromHash and by getString of the handles) stays the first
\* one for as long as the registry exists.
C15_FirstInsertionWins ==
    [][ (registry = "allocated" /\ registry' = "allocated")
          => /\ \A k \in DOMAIN s_internedStrings :
                   Resolve(s_internedStrings', k) = s_internedStrings[k]
             /\ \A str \in Strings :
                   LET k == s_stringHash(str) IN
                   /\ internString(str)
                        => /\ call'.ret = k
                           /\ Resolve(s_internedStrings', k) =
                                IF k \in DOMAIN s_internedStrings
                                  THEN s_internedStrings[k] ELSE str
                           /\ k \in DOMAIN s_internedStrings
                                => s_internedStrings' = s_internedStrings
                   /\ \A h \in Handles :
                        (HashString_str(h, str) \/ HashString_cstr(h, str))
                          => /\ handles'[h].m_hashValue = k
                             /\ Readable(handles[h])'
                             /\ TextOf(handles[h])' =
                                  IF k \in DOMAIN s_internedStrings
                                    THEN s_internedStrings[k] ELSE str
                             /\ k \in DOMAIN s_internedStrings
                                  => s_internedStrings' = s_internedStrings
       ]_vars

\* A string with the identifier of "" was inserted before s_kEmptyString
\* was built from "": s_kEmptyString holds the shared identifier and its
\* text is the string inserted first.
C15_Witness ==
    /\ RegistryLive
    /\ Readable(s_kEmptyString)
    /\ s_kEmptyString.m_hashValue = s_stringHash(EmptyText)
    /\ TextOf(s_kEmptyString) # EmptyText


AllInitializersAlive == \A i \in Initializers : initializer[i] = "alive"
SomeInitializerDestroyed ==
    \E i \in Initializers : initializer[i] = "destroyed"

\* A step that allocates the registry / that releases it.
Allocates == registry' = "allocated" /\ s_schwarzCounter = 0
Releases == registry' = "freed" /\ s_schwarzCounter - 1 = 0

\* C16, steps: the constructor allocates only when no allocation is live
\* (nothing leaks), the destructor releases only an allocated registry
\* (nothing is released twice or released when not allocated), and while
\* no instance has been destroyed only the first construction allocates.
C16_AllocationStep ==
    \A i \in Initializers :
       /\ (HashStringInitilizer_ctor(i) /\ Allocates)
             => /\ registry # "allocated"
                /\ ~SomeInitializerDestroyed
                      => \A j \in Initializers :
                            initializer[j] = "unconstructed"
       /\ (HashStringInitilizer_dtor(i) /\ Releases)
             => registry = "allocated" /\ ~undefined'
       /\ (HashStringInitilizer_dtor(i) /\ ~Releases)
             => registry' = registry /\ ~undefined'
       /\ (HashStringInitilizer_ctor(i) /\ ~Allocates)
             => registry' = registry

\* C16: allocation and release of the registry strictly alternate over
\* any sequence of HashStringInitilizer constructions and destructions,
\* and when all N instances are constructed before any is destroyed there
\* is exactly one allocation (at the first construction; the registry is
\* allocated once all are alive) and exactly one release (at the first
\* destruction; the registry stays released from then on).
C16_AllocReleaseAlternate ==
    /\ [][C16_AllocationStep]_vars
    /\ [](AllInitializersAlive
             => [](registry = IF SomeInitializerDestroyed
                                THEN "freed" ELSE "allocated"))

\* All instances were constructed, then all destroyed: the counter shows
\* that every destructor ran after the single allocation.
C16_Witness ==
    /\ \A i \in Initializers : initializer[i] = "destroyed"
    /\ s_schwarzCounter = 1 - NumInitializers
    /\ registry = "freed"
    /\ ~undefined


\* C17: the two interning paths are equivalent. From every registry state
\* and for every string s, internString(s) (find, then insert if absent)
\* and the construction of HashString(s) (insert that does not overwrite)
\* leave the same table, and the identifier internString returns is the one
\* the constructed object holds.
C17_InterningPathsEquivalent ==
    RegistryLive =>
        \A str \in Strings :
            /\ InternString(s_internedStrings, str).map =
                   HashString_text(s_internedStrings, str).map
            /\ InternString(s_internedStrings, str).ret =
                   HashString_text(s_internedStrings, str).obj.m_hashValue

\* One path was taken for a string the table did not hold and the other
\* path would now find it: a HashString built from "a" exists and
\* internString("a") leaves the table as it is.
C17_Witness ==
    /\ RegistryLive
    /\ call.op \in {"HashString(str)", "HashString(c_str)"}
    /\ \E h \in Handles :
          /\ Readable(handles[h])
          /\ handles[h].m_hashValue = InternString(s_internedStrings, <<1>>).ret
          /\ TextOf(handles[h]) = <<1>>
    /\ InternString(s_internedStrings, <<1>>).map = s_internedStrings
    /\ \E str \in Strings : ~IsStringInterned(s_internedStrings, str)


\* C18: handle field consistency. For every successfully constructed
\* HashString, after any sequence of constructions, copies and
\* assignments, m_hashValue is the key of the entry m_mapPosition refers
\* to: copy and assignment take both fields from the same object, so no
\* object pairs one entry's identifier with another entry's position.
C18_HandleFieldsConsistent ==
    ~undefined =>
        \A x \in Operands :
            HandleAt(x).made
                => /\ HandleAt(x).m_hashValue = HandleAt(x).m_mapPosition
                   /\ Readable(HandleAt(x))
                        => HasKey(s_internedStrings, HandleAt(x).m_hashValue)

\* An assignment gave an object the identifier and position of another
\* one while the table holds a second entry it could have been left at.
C18_Witness ==
    /\ call.op = "operator="
    /\ ~undefined
    /\ \A h \in Handles : Readable(handles[h])
    /\ \E h \in Handles, g \in Handles :
          /\ h # g
          /\ handles[h] = handles[g]
          /\ \E k \in DOMAIN s_internedStrings :
                k # handles[h].m_mapPosition

====
